---- MODULE Spec2Model ----
(***************************************************************************)
(* Task lifecycle of the TaskFlow API: the Task ORM model                  *)
(* (app/models/task.py), the column defaults the record store applies at   *)
(* INSERT / UPDATE, and the owner-scoped query and command services.       *)
(*                                                                         *)
(* An optional (nullable) Python value is a sequence of length <= 1:       *)
(* None is << >> and a present value v is << v >>.                         *)
(***************************************************************************)
EXTENDS Integers, Sequences, FiniteSets, TLC

VARIABLES task, now, hist, res, store, resp

vars == <<task, now, hist, res, store, resp>>

-----------------------------------------------------------------------------
(* Bounds *)

MaxTime == 1
MaxCalls == 2
MaxTasks == 1
Times == 0..MaxTime
Owners == {1, 2}

None == << >>
Some(v) == <<v>>
Val(x) == x[1]
Opt(S) == {None} \cup {Some(v) : v \in S}

\* Python truthiness of a nullable datetime attribute: a datetime object is
\* always true, None is false
truthy(x) == x # None

-----------------------------------------------------------------------------
(* Enumerations *)

TaskStatus == {"pending", "in_progress", "completed", "cancelled"}
TaskPriority == {"low", "medium", "high", "urgent"}

COMPLETED == "completed"
status_default == "pending"
priority_default == "medium"
is_deleted_default == FALSE

-----------------------------------------------------------------------------
(* The Task entity: its columns, as attributes of an in-memory object.     *)
(* The constructor sets the keyword attributes given; the others are None  *)
(* until the row is flushed (column defaults are applied at INSERT).       *)

Task(title, description, status, priority, due_date, owner_id) ==
  [ id          |-> None,
    title       |-> title,
    description |-> description,
    status      |-> status,
    priority    |-> priority,
    due_date    |-> due_date,
    owner_id    |-> owner_id,
    created_at  |-> None,
    updated_at  |-> None,
    is_deleted  |-> None,
    deleted_at  |-> None ]

\* datetime.utcnow()
utcnow == now

\* Faulty variants of soft_delete: one keeps the first deleted_at, one also
\* cancels the task, one forgets the flag
soft_delete_keep_first(self) ==
  [self EXCEPT !.is_deleted = Some(TRUE),
               !.deleted_at = IF self.deleted_at = None THEN Some(utcnow)
                              ELSE self.deleted_at]

soft_delete_cancel(self) ==
  [self EXCEPT !.is_deleted = Some(TRUE), !.deleted_at = Some(utcnow),
               !.status = Some("cancelled")]

soft_delete_no_flag(self) ==
  [self EXCEPT !.deleted_at = Some(utcnow)]

soft_delete(self) ==
  [self EXCEPT !.is_deleted = Some(TRUE), !.deleted_at = Some(utcnow)]

\* Faulty variant of restore: deleted_at is left in place
restore_keep_stamp(self) ==
  [self EXCEPT !.is_deleted = Some(FALSE)]

restore(self) ==
  [self EXCEPT !.is_deleted = Some(FALSE), !.deleted_at = None]

\* Faulty variant of is_overdue: a cancelled task is never overdue
is_overdue_skip_cancelled(self) ==
  IF truthy(self.due_date) /\ self.status # Some(COMPLETED)
       /\ self.status # Some("cancelled")
    THEN utcnow > Val(self.due_date)
    ELSE FALSE

is_overdue(self) ==
  IF truthy(self.due_date) /\ self.status # Some(COMPLETED)
    THEN utcnow > Val(self.due_date)
    ELSE FALSE

-----------------------------------------------------------------------------
(* Unit level: one in-memory Task object driven the way the model tests    *)
(* drive it (construct, assign attributes, soft_delete, restore,           *)
(* is_overdue).  hist records the last call, the time it was made at, the  *)
(* lengths of the current run of soft_delete calls and of the restore      *)
(* calls after it, and the deleted_at the first soft_delete of the run set.*)

Hist(op, sd, rs, first) ==
  [op |-> op, at |-> utcnow, sd |-> sd, rs |-> rs, first |-> first]

NewObjects ==
  { Task(Some("a"), d, s, None, dd, Some(o)) :
      d \in Opt({"d"}), s \in Opt(TaskStatus), dd \in Opt(Times), o \in {1} }

\* resp is the outcome of the last service call: the operation, the kind of
\* outcome and the value returned; a successful create_task, delete_task or
\* list_tasks also keeps the owner, task id and payload of its request
\* (None / NoPayload otherwise)
NoPayload ==
  [ title |-> None, description |-> None, status |-> None, priority |-> None,
    due_date |-> None, owner_id |-> None, id |-> None, created_at |-> None ]

Response(op, kind, value, owner, task_id, payload) ==
  [op |-> op, kind |-> kind, value |-> value, owner |-> owner,
   task_id |-> task_id, payload |-> payload]

NoResp == Response("none", "none", None, None, None, NoPayload)

InitModel ==
  /\ task \in NewObjects
  /\ now = 0
  /\ hist = Hist("Task", 0, 0, None)
  /\ res = FALSE
  /\ store = << >>
  /\ resp = NoResp

NewTask ==
  /\ task' \in NewObjects
  /\ hist' = Hist("Task", 0, 0, None)
  /\ UNCHANGED <<now, res, store, resp>>

SetDueDate ==
  /\ \E dd \in Opt(Times) : task' = [task EXCEPT !.due_date = dd]
  /\ hist' = Hist("setattr", 0, 0, None)
  /\ UNCHANGED <<now, res, store, resp>>

CallSoftDelete ==
  /\ hist.op = "soft_delete" => hist.sd < MaxCalls
  /\ task' = soft_delete(task)
  /\ hist' = IF hist.op = "soft_delete"
               THEN Hist("soft_delete", hist.sd + 1, 0, hist.first)
               ELSE Hist("soft_delete", 1, 0, task'.deleted_at)
  /\ UNCHANGED <<now, res, store, resp>>

CallRestore ==
  /\ hist.rs < MaxCalls
  /\ task' = restore(task)
  /\ hist' = Hist("restore", hist.sd, hist.rs + 1, hist.first)
  /\ UNCHANGED <<now, res, store, resp>>

GetIsOverdue ==
  /\ res' = is_overdue(task)
  /\ hist' = Hist("is_overdue", 0, 0, None)
  /\ UNCHANGED <<task, now, store, resp>>

Tick ==
  /\ now < MaxTime
  /\ now' = now + 1
  /\ UNCHANGED <<task, hist, res, store, resp>>

NextModel ==
  \/ NewTask
  \/ SetDueDate
  \/ CallSoftDelete
  \/ CallRestore
  \/ GetIsOverdue
  \/ Tick

SpecModel == InitModel /\ [][NextModel]_vars

-----------------------------------------------------------------------------
(* Record store: what the column declarations of Task make an INSERT and   *)
(* an UPDATE do.  A column default fills an attribute that is still None   *)
(* at INSERT; created_at has a server default; updated_at has only an      *)
(* onupdate hook, which fires when a changed row is flushed by an UPDATE.  *)

\* func.now()
func_now == now

id_column(n) == Some(n)

\* Faulty variant of the status column: no default
status_column_no_default(v) == v

status_column(v) == IF v = None THEN Some(status_default) ELSE v

priority_column(v) == IF v = None THEN Some(priority_default) ELSE v

is_deleted_column(v) == IF v = None THEN Some(is_deleted_default) ELSE v

\* Faulty variant of created_at: no server default
created_at_column_none(v) == v

created_at_column(v) == IF v = None THEN Some(func_now) ELSE v

\* Faulty variant of created_at: the onupdate hook sits on created_at
created_at_onupdate_now(old, new) ==
  IF new # old THEN Some(func_now) ELSE new.created_at

\* created_at declares no onupdate hook: an UPDATE leaves it alone
created_at_onupdate(old, new) == new.created_at

updated_at_column(old, new) ==
  IF new # old THEN Some(func_now) ELSE new.updated_at

\* nullable=False columns
NotNullable(obj) == obj.title # None /\ obj.owner_id # None

INSERT(obj, n) ==
  [obj EXCEPT !.id = id_column(n),
              !.status = status_column(@),
              !.priority = priority_column(@),
              !.is_deleted = is_deleted_column(@),
              !.created_at = created_at_column(@)]

UPDATE(old, new) ==
  [new EXCEPT !.created_at = created_at_onupdate(old, new),
              !.updated_at = updated_at_column(old, new)]

-----------------------------------------------------------------------------
(* Query and command services.  A payload is a record whose fields are     *)
(* None when absent from the request and Some(value) when present; the     *)
(* value of a nullable field is itself None or Some(v).                    *)

MAX_PAGE_SIZE == 2

Blank == NoPayload

CreatePayloads ==
  { [Blank EXCEPT !.title = Some("a"), !.description = Some(Some("d")),
                  !.priority = Some("high"), !.due_date = Some(Some(1))],
    [Blank EXCEPT !.title = Some("a"), !.status = Some("in_progress")],
    [Blank EXCEPT !.description = Some(Some("d"))],
    [Blank EXCEPT !.title = Some("")],
    [Blank EXCEPT !.title = Some("a"), !.priority = Some("invalid_priority")] }

UpdatePayloads ==
  { Blank,
    [Blank EXCEPT !.title = Some("b"), !.due_date = Some(None)],
    [Blank EXCEPT !.title = Some("b"), !.priority = Some("invalid_priority")],
    [Blank EXCEPT !.title = Some("b"), !.id = Some(1),
                  !.created_at = Some(Some(0))],
    [Blank EXCEPT !.title = Some("b"), !.owner_id = Some(1)] }

TaskIds == 1..(MaxTasks + 1)

Ok(op, value) == Response(op, "ok", value, None, None, NoPayload)
\* a failure carries its kind and nothing else
Fail(kind) == Response("failed", kind, None, None, None, NoPayload)

Exists(task_id) == task_id \in 1..Len(store)

\* Faulty variant of Visible: the owner is not compared
VisibleAnyOwner(owner_id, task_id) ==
  /\ Exists(task_id)
  /\ store[task_id].is_deleted = Some(FALSE)

\* id = ? AND owner_id = ? AND is_deleted = false
Visible(owner_id, task_id) ==
  /\ Exists(task_id)
  /\ store[task_id].owner_id = Some(owner_id)
  /\ store[task_id].is_deleted = Some(FALSE)

ValidEnums(p) ==
  /\ p.status # None => Val(p.status) \in TaskStatus
  /\ p.priority # None => Val(p.priority) \in TaskPriority

ValidCreate(p) ==
  /\ p.title # None
  /\ Val(p.title) # ""
  /\ ValidEnums(p)

\* the value of a nullable payload field, None when the field is absent
Given(f) == IF f = None THEN None ELSE Val(f)

create_task(owner_id, p) ==
  /\ Len(store) < MaxTasks
  /\ LET obj == Task(p.title, Given(p.description), p.status, p.priority,
                     Given(p.due_date), Some(owner_id))
         row == INSERT(obj, Len(store) + 1)
     IN  IF ValidCreate(p) /\ NotNullable(obj)
           THEN /\ store' = Append(store, row)
                /\ resp' = Response("create_task", "ok", Some(row),
                                     Some(owner_id), None, p)
           ELSE /\ resp' = Fail("ValidationError")
                /\ UNCHANGED store
  /\ UNCHANGED <<task, now, hist, res>>

\* owner_id, id and created_at are rejected when present with another value
ImmutableOk(old, p) ==
  /\ p.owner_id # None => p.owner_id = old.owner_id
  /\ p.id # None => p.id = old.id
  /\ p.created_at # None => Val(p.created_at) = old.created_at

Apply(old, p) ==
  [old EXCEPT !.title = IF p.title # None THEN p.title ELSE @,
              !.description = IF p.description # None THEN Val(p.description) ELSE @,
              !.status = IF p.status # None THEN p.status ELSE @,
              !.priority = IF p.priority # None THEN p.priority ELSE @,
              !.due_date = IF p.due_date # None THEN Val(p.due_date) ELSE @]

update_task(owner_id, task_id, p) ==
  /\ IF ~Visible(owner_id, task_id)
       THEN /\ resp' = Fail("NotFound")
            /\ UNCHANGED store
       ELSE LET old == store[task_id]
                row == UPDATE(old, Apply(old, p))
            IN  IF ValidEnums(p) /\ ImmutableOk(old, p)
                  THEN /\ store' = [store EXCEPT ![task_id] = row]
                       /\ resp' = Ok("update_task", Some(row))
                  ELSE /\ resp' = Fail("ValidationError")
                       /\ UNCHANGED store
  /\ UNCHANGED <<task, now, hist, res>>

delete_task(owner_id, task_id) ==
  /\ IF ~Visible(owner_id, task_id)
       THEN /\ resp' = Fail("NotFound")
            /\ UNCHANGED store
       ELSE LET old == store[task_id]
                row == UPDATE(old, soft_delete(old))
            IN  /\ store' = [store EXCEPT ![task_id] = row]
                /\ resp' = Response("delete_task", "ok", None,
                                     Some(owner_id), Some(task_id), NoPayload)
  /\ UNCHANGED <<task, now, hist, res>>

restore_task(owner_id, task_id) ==
  /\ IF ~(Exists(task_id) /\ store[task_id].owner_id = Some(owner_id))
       THEN /\ resp' = Fail("NotFound")
            /\ UNCHANGED store
       ELSE LET old == store[task_id]
                row == UPDATE(old, restore(old))
            IN  /\ store' = [store EXCEPT ![task_id] = row]
                /\ resp' = Ok("restore_task", Some(row))
  /\ UNCHANGED <<task, now, hist, res>>

get_task(owner_id, task_id) ==
  /\ resp' = IF Visible(owner_id, task_id)
               THEN Ok("get_task", Some(store[task_id]))
               ELSE Fail("NotFound")
  /\ UNCHANGED <<task, now, hist, res, store>>

\* filters: a subset of status, priority, due_before, due_after, ANDed
NoFilter == [status |-> None, priority |-> None, due_before |-> None,
             due_after |-> None]

Filters ==
  { NoFilter,
    [NoFilter EXCEPT !.status = Some("pending")],
    [NoFilter EXCEPT !.priority = Some("high"), !.due_before = Some(2),
                     !.due_after = Some(0)] }

Paginations ==
  { [offset |-> 0, limit |-> MAX_PAGE_SIZE],
    [offset |-> 1, limit |-> 1],
    [offset |-> 0, limit |-> 0],
    [offset |-> 0, limit |-> MAX_PAGE_SIZE + 1] }

Matches(row, f) ==
  /\ f.status # None => row.status = f.status
  /\ f.priority # None => row.priority = f.priority
  /\ f.due_before # None =>
       (row.due_date # None /\ Val(row.due_date) < Val(f.due_before))
  /\ f.due_after # None =>
       (row.due_date # None /\ Val(row.due_date) > Val(f.due_after))

\* created_at descending, the higher id first among equal created_at
Newer(a, b) ==
  \/ Val(a.created_at) > Val(b.created_at)
  \/ Val(a.created_at) = Val(b.created_at) /\ Val(a.id) > Val(b.id)

RECURSIVE Ordered(_)
Ordered(rows) ==
  IF rows = {} THEN << >>
  ELSE LET first == CHOOSE r \in rows : \A q \in rows \ {r} : Newer(r, q)
       IN  <<first>> \o Ordered(rows \ {first})

Page(seq, pg) ==
  SubSeq(seq, pg.offset + 1,
         IF pg.offset + pg.limit < Len(seq) THEN pg.offset + pg.limit
                                            ELSE Len(seq))

Listed(owner_id, f) ==
  { store[i] : i \in { j \in 1..Len(store) :
                         Visible(owner_id, j) /\ Matches(store[j], f) } }

list_tasks(owner_id, f, pg) ==
  /\ resp' = IF pg.limit < 1 \/ pg.limit > MAX_PAGE_SIZE
               THEN Fail("InvalidArgument")
               ELSE Response("list_tasks", "ok",
                             Page(Ordered(Listed(owner_id, f)), pg),
                             Some(owner_id), None, NoPayload)
  /\ UNCHANGED <<task, now, hist, res, store>>

InitService ==
  /\ store = << >>
  /\ resp = NoResp
  /\ now = 0
  /\ task = Task(None, None, None, None, None, None)
  /\ hist = Hist("none", 0, 0, None)
  /\ res = FALSE

NextService ==
  \/ \E o \in Owners, p \in CreatePayloads : create_task(o, p)
  \/ \E o \in Owners, i \in TaskIds, p \in UpdatePayloads : update_task(o, i, p)
  \/ \E o \in Owners, i \in TaskIds : delete_task(o, i)
  \/ \E o \in Owners, i \in TaskIds : restore_task(o, i)
  \/ \E o \in Owners, i \in TaskIds : get_task(o, i)
  \/ \E o \in Owners, f \in Filters, pg \in Paginations : list_tasks(o, f, pg)
  \/ Tick

Spec == InitService /\ [][NextService]_vars

-----------------------------------------------------------------------------
(* Properties of the services (checked under Spec) *)

\* C1: in every reachable state, after any sequence of create, update,
\* soft delete and restore, a task has is_deleted = True if and only if its
\* deleted_at is not None.
C1_DeletedIffStamped ==
  \A i \in 1..Len(store) :
    (store[i].is_deleted = Some(TRUE)) <=> (store[i].deleted_at # None)

C1_Witness ==
  \E i \in 1..Len(store) :
    /\ store[i].is_deleted = Some(TRUE)
    /\ store[i].deleted_at # None
    /\ store[i].title = Some("b")
    /\ Val(store[i].deleted_at) > Val(store[i].created_at)

\* C4: list_tasks(owner_id, ...) returns no task owned by another owner and
\* no soft-deleted task.
C4_ListScoped ==
  (resp.op = "list_tasks" /\ resp.kind = "ok") =>
    \A k \in 1..Len(resp.value) :
      /\ resp.value[k].owner_id = resp.owner
      /\ resp.value[k].is_deleted # Some(TRUE)

C4_Witness ==
  /\ resp.op = "list_tasks"
  /\ resp.kind = "ok"
  /\ \E i \in 1..Len(store) :
       /\ \/ store[i].owner_id # resp.owner
          \/ store[i].is_deleted = Some(TRUE)
       /\ \A k \in 1..Len(resp.value) : resp.value[k].id # store[i].id

\* C5: get_task, update_task and delete_task on an id that does not exist,
\* that another owner owns or that is soft-deleted all end in the same
\* NotFound outcome; in particular get_task right after a successful
\* delete_task of the same id by the same owner is NotFound.
Hidden(owner_id, task_id) ==
  \/ ~Exists(task_id)
  \/ store[task_id].owner_id # Some(owner_id)
  \/ store[task_id].is_deleted = Some(TRUE)

C5_HiddenIsNotFound ==
  [][\/ resp' = Fail("NotFound")
     \/ \A o \in Owners, i \in TaskIds :
       /\ ( /\ Hidden(o, i)
            /\ \/ get_task(o, i)
               \/ delete_task(o, i)
               \/ \E p \in UpdatePayloads : update_task(o, i, p) )
          => resp' = Fail("NotFound")
       /\ ( /\ resp.op = "delete_task"
            /\ resp.kind = "ok"
            /\ resp.owner = Some(o)
            /\ resp.task_id = Some(i)
            /\ get_task(o, i) )
          => resp' = Fail("NotFound")]_vars

C5_Witness ==
  /\ resp = Fail("NotFound")
  /\ \E i \in 1..Len(store) : store[i].is_deleted = Some(TRUE)

\* C6: the task a successful create_task returns has the payload's status,
\* or PENDING when the payload has none, the payload's priority, or MEDIUM
\* when the payload has none, and is_deleted = False.
C6_CreateDefaults ==
  (resp.op = "create_task" /\ resp.kind = "ok") =>
    /\ Val(resp.value).status =
         (IF resp.payload.status = None THEN Some("pending")
                                        ELSE resp.payload.status)
    /\ Val(resp.value).priority =
         (IF resp.payload.priority = None THEN Some("medium")
                                          ELSE resp.payload.priority)
    /\ Val(resp.value).is_deleted = Some(FALSE)

C6_Witness ==
  /\ resp.op = "create_task"
  /\ resp.kind = "ok"
  /\ resp.payload.status = None
  /\ resp.payload.priority = Some("high")
  /\ Val(resp.value).status = Some("pending")
  /\ Val(resp.value).priority = Some("high")

UpdateFrame(old, new, p) ==
  /\ p.title = None => new.title = old.title
  /\ p.description = None => new.description = old.description
  /\ p.status = None => new.status = old.status
  /\ p.priority = None => new.priority = old.priority
  /\ p.due_date = None => new.due_date = old.due_date
  /\ new.is_deleted = old.is_deleted
  /\ new.deleted_at = old.deleted_at
  /\ new.id = old.id
  /\ new.owner_id = old.owner_id
  /\ new.created_at = old.created_at

C8_UpdateFrame ==
  [][\A o \in Owners, i \in TaskIds, p \in UpdatePayloads :
       (resp'.op = "update_task" /\ update_task(o, i, p)) =>
         /\ Len(store') = Len(store)
         /\ UpdateFrame(store[i], store'[i], p)
         /\ resp'.value = Some(store'[i])
         /\ \A j \in 1..Len(store) : j # i => store'[j] = store[j]]_vars

C8_Witness ==
  /\ resp.op = "update_task"
  /\ resp.kind = "ok"
  /\ Val(resp.value).title = Some("b")
  /\ Val(resp.value).description = Some("d")
  /\ Val(resp.value).priority = Some("high")
  /\ Val(resp.value).due_date = None
  /\ Val(resp.value).created_at = Some(0)
  /\ Val(resp.value).updated_at = Some(1)

-----------------------------------------------------------------------------
(* Properties of the Task object (checked under SpecModel) *)

\* C2: after m >= 1 soft_delete() calls followed by n >= 1 restore() calls,
\* from any starting state, the task has is_deleted = False and
\* deleted_at = None; restore() on a task that was never deleted (m = 0)
\* leaves it active with deleted_at = None as well.
C2_RestoreClears ==
  hist.op = "restore" =>
    /\ task.is_deleted = Some(FALSE)
    /\ task.deleted_at = None

C2_Witness ==
  /\ hist.op = "restore"
  /\ hist.sd >= 2
  /\ hist.rs >= 2
  /\ hist.first # None
  /\ task.is_deleted = Some(FALSE)

\* C3: is_overdue is True exactly when due_date is set, due_date is strictly
\* earlier than the current time and status is not COMPLETED (so a cancelled,
\* pending or in-progress task with a past due date is overdue).
C3_OverdueExactly ==
  hist.op = "is_overdue" =>
    (res <=> /\ task.due_date # None
             /\ Val(task.due_date) < hist.at
             /\ task.status # Some("completed"))

C3_Witness ==
  /\ hist.op = "is_overdue"
  /\ res = TRUE
  /\ task.status = Some("cancelled")
  /\ Val(task.due_date) < hist.at

\* C9: soft_delete() on a task that is already soft-deleted leaves
\* is_deleted = True and sets deleted_at to the time of that call.
C9_SoftDeleteRefreshes ==
  (hist.op = "soft_delete" /\ hist.sd >= 2) =>
    /\ task.is_deleted = Some(TRUE)
    /\ task.deleted_at = Some(hist.at)

C9_Witness ==
  /\ hist.op = "soft_delete"
  /\ hist.sd >= 2
  /\ hist.first # None
  /\ Val(hist.first) < hist.at
  /\ task.deleted_at = Some(hist.at)

\* C10: a soft_delete() or restore() call changes no attribute other than
\* is_deleted and deleted_at, and does not change the value of is_overdue.
SameButDeletion(t, u) ==
  /\ t.id = u.id
  /\ t.title = u.title
  /\ t.description = u.description
  /\ t.status = u.status
  /\ t.priority = u.priority
  /\ t.due_date = u.due_date
  /\ t.owner_id = u.owner_id
  /\ t.created_at = u.created_at

C10_DeletionFrame ==
  [][(CallSoftDelete \/ CallRestore) =>
       /\ SameButDeletion(task, task')
       /\ is_overdue(task') = is_overdue(task)]_vars

C10_Witness ==
  /\ hist.op \in {"soft_delete", "restore"}
  /\ hist.sd >= 1
  /\ hist.rs >= 1
  /\ is_overdue(task)
  /\ task.status = Some("pending")

====
